---------------------------- MODULE Spec2Model ----------------------------
(***************************************************************************)
(* A model of disc.go: the login watch loop (stalkUser over getWho), the   *)
(* antivirus detector evaluation (main over AVSystems, existingPaths,      *)
(* runningProcs) and the private key scan (getSSHKeys over getPrivateKey). *)
(*                                                                         *)
(* Time is counted in clock units, Res units to the second.  A utmp entry  *)
(* carries the instant of the login; getWho keeps its whole seconds only.  *)
(* The clock never runs backwards and a login is stamped with the clock    *)
(* reading at the moment it happens.                                       *)
(***************************************************************************)
EXTENDS Integers, Sequences, FiniteSets

VARIABLES
    \* ---- the clock and the login record store (environment)
    now,            \* the clock, in units of 1/Res second
    utmp,           \* the login records in the store, in file order
    nextPid,        \* pid of the next login session
    logins,         \* history: pid -> [at, wm], the instant of the login and
                    \*          the watermark as it stood at that instant
    \* ---- stalkUser
    pc,             \* "entry", "newticker", "wait", "loop", "called", "returned"
    user,           \* stalkUser's first argument
    start,          \* the watermark
    nextTick,       \* when the ticker next expires
    tickPending,    \* a tick is buffered in ticker.C
    snap,           \* the slice getWho returned for the tick being processed
    idx,            \* position of the range loop in snap
    calls,          \* history: pid -> what each sa call for it returned
    watchStart,     \* history: the clock reading stalkUser started with
    tickStart,      \* history: the watermark when the current tick began
    tickFired,      \* history: pids sa was invoked for in the current tick
    cancelRequested,\* the caller has asked the watch to stop
    ticksAfterCancel,\* history: ticks begun since then (saturates at 2)
    \* ---- detector evaluation in main
    fsPaths,        \* the paths that exist on the filesystem
    procTable,      \* the process table, a sequence of [pid, name]
    avIdx,          \* position of main's range loop in AVSystems
    evaluated,      \* history: what each detector returned, and whether
                    \*          its process table read succeeded
    reported,       \* the detectors main printed, in order
    \* ---- getSSHKeys
    tree,           \* the entries filepath.Walk calls its function for
    walkIdx,        \* position of the walk in tree
    pkeys,          \* the accumulating result
    visited,        \* history: positions the walk function was called for
    walkDone        \* getSSHKeys has returned

watchVars == <<now, utmp, nextPid, logins, pc, user, start, nextTick,
               tickPending, snap, idx, calls, watchStart, tickStart,
               tickFired, cancelRequested, ticksAfterCancel>>
avVars    == <<fsPaths, procTable, avIdx, evaluated, reported>>
scanVars  == <<tree, walkIdx, pkeys, visited, walkDone>>
vars      == <<watchVars, avVars, scanVars>>

cancelVars == <<cancelRequested, ticksAfterCancel>>

---------------------------------------------------------------------------
(* Bounds of the model *)

Res       == 2      \* clock units per second
MaxTime   == 5      \* the clock stops here
MaxLogins == 2      \* logins over the whole run

(* 1 * time.Second, in clock units *)
TickInterval == 1 * Res

NoTime == -1

Users   == {"alice", "bob"}
Targets == {"*", "alice"}

---------------------------------------------------------------------------
(* Login watch *)

\* u.Tv.Sec: the whole seconds of a login instant
\* (variant: the seconds rounded up instead of truncated)
SecCeil(tv) == (tv + Res - 1) \div Res
Sec(tv) == tv \div Res

\* time.Unix(int64(w.time), 0), in clock units
UnixTime(sec) == sec * Res

\* the who record getWho builds from one utmp entry
WhoOf(u) == [user |-> u.user, pid |-> u.pid, time |-> Sec(u.tv)]

\* getWho: the records of the store, or none when the store cannot be read
getWho(ok) == IF ok THEN [k \in 1..Len(utmp) |-> WhoOf(utmp[k])] ELSE << >>

\* the condition of stalkUser's if statement
\* (variant: !start.After in place of start.Before)
IsNewMatchNotAfter(w) ==
    (user = "*" \/ user = w.user) /\ ~(start > UnixTime(w.time))
IsNewMatch(w) ==
    (user = "*" \/ user = w.user) /\ start < UnixTime(w.time)

RemoveAt(s, k) == [j \in 1..(Len(s) - 1) |-> IF j < k THEN s[j] ELSE s[j + 1]]

InitWatch ==
    /\ now = 0
    /\ utmp = << >>
    /\ nextPid = 1
    /\ logins = << >>
    /\ pc = "entry"
    /\ user \in Targets
    /\ start = NoTime
    /\ nextTick = NoTime
    /\ tickPending = FALSE
    /\ snap = << >>
    /\ idx = 1
    /\ calls = << >>
    /\ watchStart = NoTime
    /\ tickStart = NoTime
    /\ tickFired = {}
    /\ cancelRequested = FALSE
    /\ ticksAfterCancel = 0

\* the clock moves on; a due ticker expires before it moves further
ClockAdvance ==
    /\ now < MaxTime
    /\ pc \in {"entry", "newticker"} \/ now < nextTick
    /\ now' = now + 1
    /\ UNCHANGED <<utmp, nextPid, logins, pc, user, start, nextTick,
                   tickPending, snap, idx, calls, watchStart, tickStart,
                   tickFired, cancelVars, avVars, scanVars>>

\* a user logs in: the store gets a record stamped with the clock
Login ==
    /\ nextPid <= MaxLogins
    /\ \E u \in Users :
          utmp' = Append(utmp, [user |-> u, pid |-> nextPid, tv |-> now])
    /\ logins' = Append(logins, [at |-> now, wm |-> start])
    /\ calls' = Append(calls, << >>)
    /\ nextPid' = nextPid + 1
    /\ UNCHANGED <<now, pc, user, start, nextTick, tickPending, snap, idx,
                   watchStart, tickStart, tickFired, cancelVars, avVars,
                   scanVars>>

\* a session ends: its record leaves the store
Logout ==
    /\ \E k \in 1..Len(utmp) : utmp' = RemoveAt(utmp, k)
    /\ UNCHANGED <<now, nextPid, logins, pc, user, start, nextTick,
                   tickPending, snap, idx, calls, watchStart, tickStart,
                   tickFired, cancelVars, avVars, scanVars>>

\* start := time.Now()
StartWatch ==
    /\ pc = "entry"
    /\ start' = now
    /\ watchStart' = now
    /\ pc' = "newticker"
    /\ UNCHANGED <<now, utmp, nextPid, logins, user, nextTick, tickPending,
                   snap, idx, calls, tickStart, tickFired, cancelVars,
                   avVars, scanVars>>

\* ticker := time.NewTicker(1 * time.Second)
NewTicker ==
    /\ pc = "newticker"
    /\ nextTick' = now + TickInterval
    /\ pc' = "wait"
    /\ UNCHANGED <<now, utmp, nextPid, logins, user, start, tickPending,
                   snap, idx, calls, watchStart, tickStart, tickFired,
                   cancelVars, avVars, scanVars>>

\* the ticker expires: a tick is put in ticker.C, whose buffer holds one
TickerExpire ==
    /\ pc \in {"wait", "loop", "called"}
    /\ now = nextTick
    /\ tickPending' = TRUE
    /\ nextTick' = nextTick + TickInterval
    /\ UNCHANGED <<now, utmp, nextPid, logins, pc, user, start, snap, idx,
                   calls, watchStart, tickStart, tickFired, cancelVars,
                   avVars, scanVars>>

\* case <-ticker.C: and the range expression getWho()
ReceiveTick ==
    /\ pc = "wait"
    /\ tickPending
    /\ tickPending' = FALSE
    /\ \E ok \in BOOLEAN : snap' = getWho(ok)
    /\ idx' = 1
    /\ pc' = "loop"
    /\ tickStart' = start
    /\ tickFired' = {}
    /\ ticksAfterCancel' = IF cancelRequested /\ ticksAfterCancel < 2
                           THEN ticksAfterCancel + 1 ELSE ticksAfterCancel
    /\ UNCHANGED <<now, utmp, nextPid, logins, user, start, nextTick, calls,
                   watchStart, cancelRequested, avVars, scanVars>>

\* one iteration whose condition is false
\* (variant: start = time.Now() placed outside the if)
SkipRecordTouch ==
    /\ pc = "loop"
    /\ idx <= Len(snap)
    /\ ~IsNewMatch(snap[idx])
    /\ idx' = idx + 1
    /\ start' = now
    /\ UNCHANGED <<now, utmp, nextPid, logins, pc, user, nextTick,
                   tickPending, snap, calls, watchStart, tickStart,
                   tickFired, cancelVars, avVars, scanVars>>
SkipRecord ==
    /\ pc = "loop"
    /\ idx <= Len(snap)
    /\ ~IsNewMatch(snap[idx])
    /\ idx' = idx + 1
    /\ UNCHANGED <<now, utmp, nextPid, logins, pc, user, start, nextTick,
                   tickPending, snap, calls, watchStart, tickStart,
                   tickFired, cancelVars, avVars, scanVars>>

\* sa(w.user): the action is invoked; what it returns is dropped
\* (variant: stalkUser returns the error of sa)
CallActionReturnOnError ==
    /\ pc = "loop"
    /\ idx <= Len(snap)
    /\ IsNewMatch(snap[idx])
    /\ tickFired' = tickFired \cup {snap[idx].pid}
    /\ \E err \in {"nil", "error"} :
          /\ calls' = [calls EXCEPT ![snap[idx].pid] = Append(@, err)]
          /\ pc' = IF err = "error" THEN "returned" ELSE "called"
    /\ UNCHANGED <<now, utmp, nextPid, logins, user, start, nextTick,
                   tickPending, snap, idx, watchStart, tickStart,
                   cancelVars, avVars, scanVars>>
CallAction ==
    /\ pc = "loop"
    /\ idx <= Len(snap)
    /\ IsNewMatch(snap[idx])
    /\ tickFired' = tickFired \cup {snap[idx].pid}
    /\ \E err \in {"nil", "error"} :
          calls' = [calls EXCEPT ![snap[idx].pid] = Append(@, err)]
    /\ pc' = "called"
    /\ UNCHANGED <<now, utmp, nextPid, logins, user, start, nextTick,
                   tickPending, snap, idx, watchStart, tickStart,
                   cancelVars, avVars, scanVars>>

\* start = time.Now(), and on to the next record
\* (variant: the watermark is not advanced)
AdvanceWatermarkForgotten ==
    /\ pc = "called"
    /\ idx' = idx + 1
    /\ pc' = "loop"
    /\ UNCHANGED <<now, utmp, nextPid, logins, user, start, nextTick,
                   tickPending, snap, calls, watchStart, tickStart,
                   tickFired, cancelVars, avVars, scanVars>>
AdvanceWatermark ==
    /\ pc = "called"
    /\ start' = now
    /\ idx' = idx + 1
    /\ pc' = "loop"
    /\ UNCHANGED <<now, utmp, nextPid, logins, user, nextTick, tickPending,
                   snap, calls, watchStart, tickStart, tickFired,
                   cancelVars, avVars, scanVars>>

\* the range loop is over: back to the select
EndOfTick ==
    /\ pc = "loop"
    /\ idx > Len(snap)
    /\ pc' = "wait"
    /\ UNCHANGED <<now, utmp, nextPid, logins, user, start, nextTick,
                   tickPending, snap, idx, calls, watchStart, tickStart,
                   tickFired, cancelVars, avVars, scanVars>>

\* the caller wants the watch to end; the select has no case for it
RequestCancel ==
    /\ pc \in {"wait", "loop", "called"}
    /\ ~cancelRequested
    /\ cancelRequested' = TRUE
    /\ UNCHANGED <<now, utmp, nextPid, logins, pc, user, start, nextTick,
                   tickPending, snap, idx, calls, watchStart, tickStart,
                   tickFired, ticksAfterCancel, avVars, scanVars>>

---------------------------------------------------------------------------
(* Claims about the login watch *)

Matches(w) == user = "*" \/ user = w.user

Fired(p) == calls[p] # << >>

SomeCallFailed ==
    \E p \in DOMAIN calls : \E n \in DOMAIN calls[p] : calls[p][n] = "error"

\* C1: when a tick is over, sa has been invoked in it for every record of its
\* snapshot that matches the target and whose timestamp is strictly after the
\* watermark as it stood when the tick began.
C1_EveryNewMatchOfTickFires ==
    pc = "wait" =>
        \A k \in DOMAIN snap :
            (Matches(snap[k]) /\ tickStart < UnixTime(snap[k].time))
                => snap[k].pid \in tickFired

\* C2: sa is invoked at most once for a login record, whatever the target.
C2_AtMostOncePerRecord ==
    \A p \in DOMAIN calls : Len(calls[p]) <= 1

\* a tick is over in which a record that fired in an earlier tick was still
\* in the snapshot, under the wildcard
C2_Witness ==
    /\ pc = "wait"
    /\ user = "*"
    /\ \E k \in DOMAIN snap :
          /\ Len(calls[snap[k].pid]) = 1
          /\ snap[k].pid \notin tickFired

\* C3: once the caller has asked the watch to stop, at most the tick of the
\* running interval still begins: no second tick begins after the request.
C3_NoPollingAfterCancel ==
    ticksAfterCancel <= 1

\* C4: the watermark starts as the clock reading at the start of the watch,
\* never decreases, changes only right after an invocation of sa in the
\* current tick, and a tick with no invocation ends with the watermark it
\* began with.
C4_WatermarkMonotone ==
    [][ /\ (pc = "entry" /\ pc' # "entry") => start' = now
        /\ pc # "entry" => start' >= start
        /\ (pc # "entry" /\ start' # start) => (pc = "called" /\ tickFired # {})
        /\ (pc = "loop" /\ pc' = "wait" /\ tickFired = {}) => start' = tickStart
      ]_vars

\* a tick with a match is over and the watermark has moved up
C4_Witness ==
    /\ pc = "wait"
    /\ tickFired # {}
    /\ start > tickStart
    /\ tickStart >= watchStart

\* C5: a record whose timestamp is not strictly after the start of the watch
\* never has sa invoked for it.
C5_OldLoginNeverFires ==
    \A p \in DOMAIN calls :
        Fired(p) => (logins[p].at \div Res) * Res > watchStart

\* a tick is over whose snapshot held a matching record from before the watch
C5_Witness ==
    /\ pc = "wait"
    /\ \E k \in DOMAIN snap :
          /\ Matches(snap[k])
          /\ snap[k].time * Res <= watchStart
          /\ ~Fired(snap[k].pid)

\* C6: once sa has returned an error stalkUser stays in its loop: it never
\* returns, a pending tick still begins a new pass over the login records,
\* and a new matching record met in a pass still has sa invoked for it.
C6_FailedCallbackKeepsLoop ==
    [][ /\ SomeCallFailed' => pc' \in {"wait", "loop", "called"}
        /\ (SomeCallFailed /\ pc = "wait" /\ pc' # pc) => pc' = "loop"
        /\ ( /\ SomeCallFailed
             /\ pc = "loop"
             /\ idx <= Len(snap)
             /\ (pc' # pc \/ idx' # idx) )
              => IF IsNewMatch(snap[idx])
                 THEN pc' = "called" /\ snap[idx].pid \in tickFired'
                 ELSE pc' = "loop" /\ idx' = idx + 1
      ]_vars

\* sa failed for one record in an earlier tick and was invoked for another
\* record in the current one
C6_Witness ==
    \E p, q \in DOMAIN calls :
        /\ p # q
        /\ calls[p] = <<"error">>
        /\ p \notin tickFired
        /\ q \in tickFired

---------------------------------------------------------------------------
(* Detector evaluation *)

MaxProcs == 2       \* processes in the table

\* AVSystems, with the candidates each detector's Paths and Procs pass on
AVSystems ==
    << [name  |-> "OSSEC",
        paths |-> <<"/var/ossec">>,
        procs |-> <<"ossec-agentd", "ossec-syscheckd">>],
       [name  |-> "Sophos",
        paths |-> <<"/etc/init.d/sav-protect", "/etc/init.d/sav-rms",
                    "/lib/systemd/system/sav-protect.service",
                    "/lib/systemd/system/sav-rms.service", "/opt/sophos-av">>,
        procs |-> <<"savd", "savscand">>] >>

AllPaths == UNION {{AVSystems[d].paths[k] : k \in DOMAIN AVSystems[d].paths} :
                   d \in DOMAIN AVSystems}

ProcNames == {"ossec-agentd", "ossec-syscheckd", "savd", "savscand", "sshd"}

\* existingPaths: the candidates os.Stat finds, in order
existingPaths(paths) == SelectSeq(paths, LAMBDA p : p \in fsPaths)

\* ps.Processes(): the table, or nothing with an error
psProcesses(ok) == IF ok THEN procTable ELSE << >>

\* runningProcs: for each process of the table, in order, one entry per
\* candidate name equal to its executable
RECURSIVE runningProcsFrom(_, _, _)
runningProcsFrom(procs, allProcs, k) ==
    IF k > Len(allProcs) THEN << >>
    ELSE LET hits == SelectSeq(procs, LAMBDA need : need = allProcs[k].name)
         IN  [j \in 1..Len(hits) |->
                 [pid |-> allProcs[k].pid, name |-> allProcs[k].name]]
             \o runningProcsFrom(procs, allProcs, k + 1)

runningProcs(procs, ok) == runningProcsFrom(procs, psProcesses(ok), 1)

\* KernelModules: neither detector has any
KernelModules(av) == << >>

\* the condition under which main prints a detector
\* (variant: && in place of ||)
ShouldReportBoth(paths, procs) == Len(paths) > 0 /\ Len(procs) > 0
ShouldReport(paths, procs) == Len(paths) > 0 \/ Len(procs) > 0

SeqsUpTo(S, n) == UNION {[1..m -> S] : m \in 0..n}

InitAV ==
    /\ fsPaths \in SUBSET AllPaths
    /\ \E names \in SeqsUpTo(ProcNames, MaxProcs) :
          procTable = [k \in DOMAIN names |-> [pid |-> k, name |-> names[k]]]
    /\ avIdx = 1
    /\ evaluated = << >>
    /\ reported = << >>

InitAVIdle ==
    /\ fsPaths = {}
    /\ procTable = << >>
    /\ avIdx = 1
    /\ evaluated = << >>
    /\ reported = << >>

\* one iteration of main's loop over AVSystems
\* (variant: the loop ends when the process table cannot be read)
EvalDetectorAbortOnError ==
    /\ avIdx <= Len(AVSystems)
    /\ \E psOk \in BOOLEAN :
          LET av    == AVSystems[avIdx]
              paths == existingPaths(av.paths)
              procs == runningProcs(av.procs, psOk)
              mods  == KernelModules(av)
              res   == [name |-> av.name, paths |-> paths, procs |-> procs,
                        mods |-> mods]
          IN  IF psOk
              THEN /\ evaluated' = Append(evaluated, [res |-> res, psOk |-> psOk])
                   /\ reported' = IF ShouldReport(paths, procs)
                                  THEN Append(reported, res) ELSE reported
                   /\ avIdx' = avIdx + 1
              ELSE /\ avIdx' = Len(AVSystems) + 1
                   /\ UNCHANGED <<evaluated, reported>>
    /\ UNCHANGED <<fsPaths, procTable, watchVars, scanVars>>
EvalDetector ==
    /\ avIdx <= Len(AVSystems)
    /\ \E psOk \in BOOLEAN :
          LET av    == AVSystems[avIdx]
              paths == existingPaths(av.paths)
              procs == runningProcs(av.procs, psOk)
              mods  == KernelModules(av)
              res   == [name |-> av.name, paths |-> paths, procs |-> procs,
                        mods |-> mods]
          IN  /\ evaluated' = Append(evaluated, [res |-> res, psOk |-> psOk])
              /\ reported' = IF ShouldReport(paths, procs)
                             THEN Append(reported, res) ELSE reported
    /\ avIdx' = avIdx + 1
    /\ UNCHANGED <<fsPaths, procTable, watchVars, scanVars>>

\* a process of the table exits
ProcExit ==
    /\ \E k \in DOMAIN procTable : procTable' = RemoveAt(procTable, k)
    /\ UNCHANGED <<fsPaths, avIdx, evaluated, reported, watchVars, scanVars>>

---------------------------------------------------------------------------
(* Private key scan *)

MaxFiles == 3       \* entries the walk visits

\* what the walk and getPrivateKey meet at one entry: the mode Lstat gave
\* ("nil": no FileInfo, "other": a directory or any other entry that is not
\* a regular file), whether os.Open, the 32 byte Read and ReadString
\* succeed, whether the head matches the BEGIN line, and whether the next
\* line ends in ENCRYPTED
Entry(mode, openOk, readOk, headKey, lineOk, enc) ==
    [mode |-> mode, openOk |-> openOk, readOk |-> readOk,
     headKey |-> headKey, lineOk |-> lineOk, enc |-> enc]

Entries ==
    { Entry("nil", FALSE, FALSE, FALSE, FALSE, FALSE),
      Entry("other", TRUE, FALSE, FALSE, FALSE, FALSE),
      Entry("regular", FALSE, FALSE, FALSE, FALSE, FALSE),
      Entry("regular", TRUE, FALSE, FALSE, FALSE, FALSE),
      Entry("regular", TRUE, TRUE, FALSE, FALSE, FALSE),
      Entry("regular", TRUE, TRUE, TRUE, FALSE, FALSE),
      Entry("regular", TRUE, TRUE, TRUE, TRUE, FALSE),
      Entry("regular", TRUE, TRUE, TRUE, TRUE, TRUE) }

\* privateKey{}; a path is the position of its entry in the walk
NoKey == [path |-> 0, encrypted |-> FALSE]

\* getPrivateKey
getPrivateKey(path) ==
    LET f == tree[path] IN
    IF ~f.openOk THEN NoKey
    ELSE IF ~f.readOk THEN NoKey
    ELSE IF ~f.headKey THEN NoKey
    ELSE IF ~f.lineOk THEN NoKey
    ELSE [path |-> path, encrypted |-> f.enc]

InitScan ==
    /\ tree \in SeqsUpTo(Entries, MaxFiles)
    /\ walkIdx = 1
    /\ pkeys = << >>
    /\ visited = {}
    /\ walkDone = FALSE

InitScanIdle ==
    /\ tree = << >>
    /\ walkIdx = 1
    /\ pkeys = << >>
    /\ visited = {}
    /\ walkDone = FALSE

\* the function getSSHKeys hands to filepath.Walk, called for one entry; it
\* returns nil, so the walk goes on
\* (variant: the function returns an error for an entry without FileInfo
\* or a file that cannot be opened, which ends the walk)
WalkFnStopOnError ==
    /\ ~walkDone
    /\ walkIdx <= Len(tree)
    /\ visited' = visited \cup {walkIdx}
    /\ IF tree[walkIdx].mode # "regular"
       THEN /\ pkeys' = pkeys
            /\ walkIdx' = IF tree[walkIdx].mode = "nil"
                          THEN Len(tree) + 1 ELSE walkIdx + 1
       ELSE LET pkey == getPrivateKey(walkIdx) IN
            /\ pkeys' = IF pkey # NoKey THEN Append(pkeys, pkey) ELSE pkeys
            /\ walkIdx' = IF ~tree[walkIdx].openOk
                          THEN Len(tree) + 1 ELSE walkIdx + 1
    /\ UNCHANGED <<tree, walkDone, watchVars, avVars>>
WalkFn ==
    /\ ~walkDone
    /\ walkIdx <= Len(tree)
    /\ visited' = visited \cup {walkIdx}
    /\ IF tree[walkIdx].mode # "regular"
       THEN pkeys' = pkeys
       ELSE LET pkey == getPrivateKey(walkIdx) IN
            pkeys' = IF pkey # NoKey THEN Append(pkeys, pkey) ELSE pkeys
    /\ walkIdx' = walkIdx + 1
    /\ UNCHANGED <<tree, walkDone, watchVars, avVars>>

\* filepath.Walk is through: getSSHKeys returns pkeys
WalkReturn ==
    /\ ~walkDone
    /\ walkIdx > Len(tree)
    /\ walkDone' = TRUE
    /\ UNCHANGED <<tree, walkIdx, pkeys, visited, watchVars, avVars>>

---------------------------------------------------------------------------
(* Specifications *)

WatchInit == InitWatch /\ InitAVIdle /\ InitScanIdle

WatchNext ==
    \/ ClockAdvance
    \/ Login
    \/ Logout
    \/ StartWatch
    \/ NewTicker
    \/ TickerExpire
    \/ ReceiveTick
    \/ SkipRecord
    \/ CallAction
    \/ AdvanceWatermark
    \/ EndOfTick

SpecWatch == WatchInit /\ [][WatchNext]_vars

\* the watch with a caller that asks it to stop
CancelNext == WatchNext \/ RequestCancel

SpecCancel == WatchInit /\ [][CancelNext]_vars

\* main's loop over AVSystems
AVInit == InitAV /\ InitWatch /\ user = "*" /\ InitScanIdle

AVNext ==
    \/ EvalDetector
    \/ ProcExit

SpecAV == AVInit /\ [][AVNext]_vars

\* getSSHKeys over one directory
ScanInit == InitScan /\ InitWatch /\ user = "*" /\ InitAVIdle

ScanNext ==
    \/ WalkFn
    \/ WalkReturn

SpecScan == ScanInit /\ [][ScanNext]_vars

---------------------------------------------------------------------------
(* Claims about the detector evaluation *)

NamesOf(s) == {s[k].name : k \in DOMAIN s}

TimesReported(name) == Cardinality({j \in DOMAIN reported : reported[j].name = name})

\* C7: a detector that has been evaluated is among the reported ones exactly
\* when one of its three matched sets is non-empty, no detector is reported
\* twice, and nothing else is reported.
C7_ReportedIffSomeMatch ==
    /\ \A k \in DOMAIN evaluated :
          LET r == evaluated[k].res IN
          /\ (r.paths # << >> \/ r.procs # << >> \/ r.mods # << >>)
                => TimesReported(r.name) = 1
          /\ (r.paths = << >> /\ r.procs = << >> /\ r.mods = << >>)
                => TimesReported(r.name) = 0
    /\ \A j \in DOMAIN reported :
          \E k \in DOMAIN evaluated : evaluated[k].res = reported[j]

\* both detectors are evaluated: one matched only a process and is reported,
\* the other matched nothing and is not
C7_Witness ==
    /\ avIdx > Len(AVSystems)
    /\ \E k \in DOMAIN evaluated :
          /\ evaluated[k].res.paths = << >>
          /\ evaluated[k].res.procs # << >>
          /\ TimesReported(evaluated[k].res.name) = 1
    /\ \E k \in DOMAIN evaluated :
          /\ evaluated[k].res.paths = << >>
          /\ evaluated[k].res.procs = << >>
          /\ TimesReported(evaluated[k].res.name) = 0

HasExistingPath(av) == \E k \in DOMAIN av.paths : av.paths[k] \in fsPaths

\* C8: a detector whose process table read failed has no process matches,
\* and when main's loop is over every detector has been evaluated and every
\* detector with an existing candidate path is reported.
C8_ProcTableFailureTolerated ==
    /\ \A k \in DOMAIN evaluated :
          ~evaluated[k].psOk => evaluated[k].res.procs = << >>
    /\ avIdx > Len(AVSystems) =>
          /\ Len(evaluated) = Len(AVSystems)
          /\ \A d \in DOMAIN AVSystems :
                /\ evaluated[d].res.name = AVSystems[d].name
                /\ HasExistingPath(AVSystems[d])
                      => AVSystems[d].name \in NamesOf(reported)

\* the first detector's process table read failed while one of its
\* processes was running, and the second, with an existing path, is reported
C8_Witness ==
    /\ avIdx > Len(AVSystems)
    /\ Len(evaluated) = Len(AVSystems)
    /\ ~evaluated[1].psOk
    /\ \E k \in DOMAIN procTable : procTable[k].name = "ossec-agentd"
    /\ HasExistingPath(AVSystems[2])
    /\ AVSystems[2].name \in NamesOf(reported)

---------------------------------------------------------------------------
(* Claims about the private key scan *)

IsReadableKey(f) ==
    f.mode = "regular" /\ f.openOk /\ f.readOk /\ f.headKey /\ f.lineOk

\* the key records of the first n entries, in walk order
RECURSIVE KeysUpTo(_)
KeysUpTo(n) ==
    IF n = 0 THEN << >>
    ELSE IF IsReadableKey(tree[n])
         THEN Append(KeysUpTo(n - 1), [path |-> n, encrypted |-> tree[n].enc])
         ELSE KeysUpTo(n - 1)

\* C9: at every point of the walk the result holds the key records of all
\* entries passed so far, and when getSSHKeys returns every entry has been
\* visited and the result holds the key records of the whole walk.
C9_ScanRunsToEnd ==
    /\ walkIdx <= Len(tree) + 1
    /\ visited = 1..(walkIdx - 1)
    /\ pkeys = KeysUpTo(walkIdx - 1)
    /\ walkDone => (visited = DOMAIN tree /\ pkeys = KeysUpTo(Len(tree)))

\* the scan returned both keys of a walk that met, between them, a file that
\* could not be opened or an entry without FileInfo
C9_Witness ==
    /\ walkDone
    /\ Len(pkeys) = 2
    /\ \E k \in DOMAIN tree :
          /\ pkeys[1].path < k
          /\ k < pkeys[2].path
          /\ (tree[k].mode = "nil" \/ (tree[k].mode = "regular" /\ ~tree[k].openOk))

=============================================================================
